---- MODULE Spec2Model ----
(***************************************************************************)
(* Model of the schema compiler of iceberg-tables-example (src/lib/utils.ts)*)
(* validatedFieldName, readSqlSchemaFromJson and parseSqlSchemaFromObject.  *)
(*                                                                          *)
(* Text is modelled by TLA+ strings (character sequences to TLC), JSON      *)
(* values by tagged records, a thrown exception by the err field of a       *)
(* result record.                                                           *)
(***************************************************************************)
EXTENDS Integers, Sequences, FiniteSets, TLC

VARIABLES op, file_content, data, mapping, result, returned, fieldName, validated,
          props, tableRes, phase, executed

\* the variables of createTable and of its custom resource
stackVars == <<props, tableRes, phase, executed>>

vars == <<op, file_content, data, mapping, result, returned, fieldName, validated,
          props, tableRes, phase, executed>>

(***************************************************************************)
(* Bounds of the model.                                                     *)
(***************************************************************************)
MaxFields == 2
MaxMembers == 2
MaxDepth == 2
MaxNameLen == 2
MaxEvents == 3

(***************************************************************************)
(* Characters.                                                              *)
(***************************************************************************)
LowerSeq == <<"a","b","c","d","e","f","g","h","i","j","k","l","m",
              "n","o","p","q","r","s","t","u","v","w","x","y","z">>
UpperSeq == <<"A","B","C","D","E","F","G","H","I","J","K","L","M",
              "N","O","P","Q","R","S","T","U","V","W","X","Y","Z">>
DigitSeq == <<"0","1","2","3","4","5","6","7","8","9">>

Range(f) == {f[i] : i \in DOMAIN f}

\* the character class [a-zA-Z0-9_-] of the regular expression
LegalChars == Range(LowerSeq) \cup Range(UpperSeq) \cup Range(DigitSeq) \cup {"_", "-"}

CharAt(s, i) == SubSeq(s, i, i)

\* String.prototype.toLowerCase on one ASCII character
ToLowerChar(c) ==
    IF \E i \in DOMAIN UpperSeq : UpperSeq[i] = c
    THEN LowerSeq[CHOOSE i \in DOMAIN UpperSeq : UpperSeq[i] = c]
    ELSE c

RECURSIVE toLowerCase(_)
toLowerCase(s) ==
    IF s = "" THEN ""
    ELSE ToLowerChar(CharAt(s, 1)) \o toLowerCase(SubSeq(s, 2, Len(s)))

RECURSIVE replaceIllegalKeepsQuote(_)
\* faulty variant: the quote character counted among the legal characters
replaceIllegalKeepsQuote(s) ==
    IF s = "" THEN ""
    ELSE (IF CharAt(s, 1) \in LegalChars \cup {"'"} THEN CharAt(s, 1) ELSE "")
         \o replaceIllegalKeepsQuote(SubSeq(s, 2, Len(s)))

\* fieldName.replace(/[^a-zA-Z0-9_-]/g, "")
RECURSIVE replaceIllegal(_)
replaceIllegal(s) ==
    IF s = "" THEN ""
    ELSE (IF CharAt(s, 1) \in LegalChars THEN CharAt(s, 1) ELSE "")
         \o replaceIllegal(SubSeq(s, 2, Len(s)))

RECURSIVE NatToString(_)
NatToString(n) ==
    IF n < 10 THEN DigitSeq[n + 1]
    ELSE NatToString(n \div 10) \o DigitSeq[(n % 10) + 1]

DigitVal(c) == (CHOOSE i \in DOMAIN DigitSeq : DigitSeq[i] = c) - 1

IsDigits(s) == Len(s) > 0 /\ \A i \in 1..Len(s) : CharAt(s, i) \in Range(DigitSeq)

RECURSIVE StringToNat(_)
StringToNat(s) ==
    IF s = "" THEN 0
    ELSE 10 * StringToNat(SubSeq(s, 1, Len(s) - 1)) + DigitVal(CharAt(s, Len(s)))

(***************************************************************************)
(* RESERVED_KEYWORDS and validatedFieldName.                                *)
(***************************************************************************)
RESERVED_KEYWORDS == {
    "all", "alter", "and", "array", "as", "authorization", "between", "bigint",
    "binary", "boolean", "both", "by", "case", "cashe", "cast", "char", "column",
    "conf", "constraint", "commit", "create", "cross", "cube", "current",
    "current_date", "current_timestamp", "cursor", "database", "date",
    "dayofweek", "decimal", "delete", "describe", "distinct", "double", "drop",
    "else", "end", "exchange", "exists", "extended", "external", "extract",
    "false", "fetch", "float", "floor", "following", "for", "foreign", "from",
    "full", "function", "grant", "group", "grouping", "having", "if", "import",
    "in", "inner", "insert", "int", "integer", "intersect", "interval", "into",
    "is", "join", "lateral", "left", "less", "like", "local", "macro", "map",
    "more", "none", "not", "null", "numeric", "of", "on", "only", "or", "order",
    "out", "outer", "over", "partialscan", "partition", "percent", "preceding",
    "precision", "preserve", "primary", "procedure", "range", "reads", "reduce",
    "regexp", "references", "revoke", "right", "rlike", "rollback", "rollup",
    "row", "rows", "select", "set", "smallint", "start", "table", "tablesample",
    "then", "time", "timestamp", "to", "transform", "trigger", "true", "truncate",
    "unbounded", "union", "uniquejoin", "update", "user", "using", "utc_timestamp",
    "values", "varchar", "views", "when", "where", "window", "with"}

\* The backtick (U+0060) cannot be written in a TLA+ string literal; the
\* apostrophe stands for it. Like the backtick it is outside [a-zA-Z0-9_-],
\* and no name of the model contains it.
Backtick == "'"

\* faulty variant: the reserved-word test made on the name as written (no toLowerCase)
validatedFieldNameCaseSensitive(name) ==
    IF Len(name) = 0 THEN ""
    ELSE IF name \in RESERVED_KEYWORDS
         THEN Backtick \o replaceIllegal(name) \o Backtick
         ELSE replaceIllegal(name)

\* faulty variant: the result validated once more
validatedFieldNameTwice(name) ==
    LET once == IF Len(name) = 0 THEN ""
                ELSE IF toLowerCase(name) \in RESERVED_KEYWORDS
                     THEN Backtick \o replaceIllegal(name) \o Backtick
                     ELSE replaceIllegal(name)
    IN IF Len(once) = 0 THEN ""
       ELSE IF toLowerCase(once) \in RESERVED_KEYWORDS
            THEN Backtick \o replaceIllegal(once) \o Backtick
            ELSE replaceIllegal(once)

validatedFieldName(name) ==
    IF Len(name) = 0 THEN ""
    ELSE IF toLowerCase(name) \in RESERVED_KEYWORDS
         THEN Backtick \o replaceIllegal(name) \o Backtick
         ELSE replaceIllegal(name)

(***************************************************************************)
(* JSON values as JavaScript sees them after JSON.parse.  Every value is a  *)
(* record of the same shape: tag says which of the fields is meaningful.    *)
(* ents is the property list of an object in JavaScript's property order.   *)
(* A number is n plus the fraction whose decimal digits are s ("" for an    *)
(* integer).                                                                *)
(***************************************************************************)
Undefined == [tag |-> "undef", s |-> "", n |-> 0, ents |-> <<>>]
Null == [tag |-> "null", s |-> "", n |-> 0, ents |-> <<>>]
Str(x) == [tag |-> "str", s |-> x, n |-> 0, ents |-> <<>>]
Num(x) == [tag |-> "num", s |-> "", n |-> x, ents |-> <<>>]
\* a number as written in the document text, with a fraction part: i.f
NumLit(i, f) == [tag |-> "numlit", s |-> f, n |-> i, ents |-> <<>>]
Bool(b) == [tag |-> "bool", s |-> "", n |-> IF b THEN 1 ELSE 0, ents |-> <<>>]
Obj(es) == [tag |-> "obj", s |-> "", n |-> 0, ents |-> es]
Ent(key, value) == [k |-> key, v |-> value]

\* The schema nodes of the input grammar, as JSON objects.
Prim(kw) == Obj(<<Ent("type", Str(kw))>>)
Arr(item) == Obj(<<Ent("type", Str("array")), Ent("items", item)>>)
MapOf(key, value) ==
    Obj(<<Ent("type", Str("map")),
          Ent("properties", Obj(<<Ent("key", key), Ent("value", value)>>))>>)
Dec(p, sc) ==
    Obj(<<Ent("type", Str("decimal")),
          Ent("properties", Obj(<<Ent("precision", Num(p)), Ent("scale", Num(sc))>>))>>)
ObjectOf(fields) == Obj(<<Ent("type", Str("object")), Ent("properties", Obj(fields))>>)
Group(fields) == Obj(fields)
Wrap(fields) == Obj(<<Ent("properties", Obj(fields))>>)

(***************************************************************************)
(* Property order of a JavaScript object: the keys that are array indices   *)
(* ("0", "1", "10", ... : canonical decimal numerals below 2^32 - 1) come   *)
(* first in ascending numeric order, the other keys follow in the order in  *)
(* which they were written.  JSON.parse builds its objects this way, and    *)
(* for..in enumerates them in this order.                                   *)
(***************************************************************************)
\* a canonical numeral of at most 2^32 - 2 = 4294967294
IsArrayIndex(key) ==
    /\ IsDigits(key)
    /\ (Len(key) = 1 \/ CharAt(key, 1) # "0")
    /\ \/ Len(key) <= 9
       \/ /\ Len(key) = 10
          /\ \/ StringToNat(SubSeq(key, 1, 5)) < 42949
             \/ /\ StringToNat(SubSeq(key, 1, 5)) = 42949
                /\ StringToNat(SubSeq(key, 6, 10)) <= 67294

\* numeric order of two canonical numerals: by length, then digit by digit
RECURSIVE DigitsLessEq(_, _)
DigitsLessEq(a, b) ==
    IF a = "" THEN TRUE
    ELSE IF DigitVal(CharAt(a, 1)) # DigitVal(CharAt(b, 1))
         THEN DigitVal(CharAt(a, 1)) < DigitVal(CharAt(b, 1))
         ELSE DigitsLessEq(SubSeq(a, 2, Len(a)), SubSeq(b, 2, Len(b)))

IndexLessEq(a, b) == Len(a) < Len(b) \/ (Len(a) = Len(b) /\ DigitsLessEq(a, b))

RECURSIVE SortByIndex(_)
SortByIndex(es) ==
    IF es = <<>> THEN <<>>
    ELSE LET m == CHOOSE i \in DOMAIN es :
                     \A j \in DOMAIN es : IndexLessEq(es[i].k, es[j].k)
         IN <<es[m]>> \o SortByIndex(SubSeq(es, 1, m - 1) \o SubSeq(es, m + 1, Len(es)))

IsIndexEnt(e) == IsArrayIndex(e.k)
IsNamedEnt(e) == ~IsArrayIndex(e.k)

OrdinaryOwnPropertyKeys(es) ==
    SortByIndex(SelectSeq(es, IsIndexEnt)) \o SelectSeq(es, IsNamedEnt)

RECURSIVE StripTrailingZeros(_)
StripTrailingZeros(digits) ==
    IF digits = "" THEN ""
    ELSE IF CharAt(digits, Len(digits)) = "0"
         THEN StripTrailingZeros(SubSeq(digits, 1, Len(digits) - 1))
         ELSE digits

\* JSON.parse(file_content): the document text is given as the tree of its
\* values with every object's members in the order of the text.  A number
\* written with a fraction becomes the number it denotes: 5.0 is 5.
RECURSIVE JSONparse(_)
JSONparse(v) ==
    IF v.tag = "obj"
    THEN Obj(OrdinaryOwnPropertyKeys(
                 [i \in DOMAIN v.ents |-> Ent(v.ents[i].k, JSONparse(v.ents[i].v))]))
    ELSE IF v.tag = "numlit"
    THEN [tag |-> "num", s |-> StripTrailingZeros(v.s), n |-> v.n, ents |-> <<>>]
    ELSE v

\* data[key]
Get(v, key) ==
    IF v.tag = "obj" /\ \E i \in DOMAIN v.ents : v.ents[i].k = key
    THEN v.ents[CHOOSE i \in DOMAIN v.ents : v.ents[i].k = key].v
    ELSE IF v.tag = "str" /\ IsArrayIndex(key) /\ Len(key) <= 9 /\ StringToNat(key) < Len(v.s)
         THEN Str(CharAt(v.s, StringToNat(key) + 1))
         ELSE Undefined

\* the properties for (const key in v) enumerates, each with v[key]
ForIn(v) ==
    IF v.tag = "obj" THEN v.ents
    ELSE IF v.tag = "str"
         THEN [i \in 1..Len(v.s) |-> Ent(NatToString(i - 1), Str(CharAt(v.s, i)))]
         ELSE <<>>

\* ToBoolean
Truthy(v) ==
    CASE v.tag \in {"undef", "null"} -> FALSE
      [] v.tag = "str" -> v.s # ""
      [] v.tag = "num" -> v.n # 0 \/ v.s # ""
      [] v.tag = "bool" -> v.n # 0
      [] OTHER -> TRUE

\* The enumerable and non-enumerable properties every plain object inherits
\* from Object.prototype.
ObjectPrototypeKeys ==
    {"constructor", "hasOwnProperty", "isPrototypeOf", "propertyIsEnumerable",
     "toLocaleString", "toString", "valueOf", "__proto__",
     "__defineGetter__", "__defineSetter__", "__lookupGetter__", "__lookupSetter__"}

HasOwn(v, key) == v.tag = "obj" /\ \E i \in DOMAIN v.ents : v.ents[i].k = key

\* key in mapping: own and inherited properties
KeyIn(key, m) == HasOwn(m, key) \/ key \in ObjectPrototypeKeys

\* mapping[key]: an inherited property is a function or Object.prototype
\* itself, an object without enumerable own properties
Lookup(m, key) == IF HasOwn(m, key) THEN Get(m, key) ELSE Obj(<<>>)

(***************************************************************************)
(* parseSqlSchemaFromObject.  A call yields a result record: err is "none"  *)
(* and val the returned string, or err names the exception thrown:          *)
(*   "UnsupportedType"  Error("Data type 'null' is not supported ...")      *)
(*   "UnknownType"      Error("Unknown data type '...'.")                   *)
(*   "TypeError"        a property read of undefined or null                *)
(*   "RangeError"       unbounded recursion (call stack exhausted)          *)
(***************************************************************************)
Ok(text) == [err |-> "none", val |-> text]
Throw(e) == [err |-> e, val |-> ""]
Pending == [err |-> "pending", val |-> ""]

\* faulty variant: timestamp kept as timestamp
PrimitiveSqlTimestampKept(t) ==
    CASE t = "string" -> "string"
      [] t = "boolean" -> "boolean"
      [] t = "integer" -> "int"
      [] t = "number" -> "float"
      [] t = "float" -> "float"
      [] t = "date" -> "date"
      [] t = "datetime" -> "timestamp"
      [] t = "timestamp" -> "timestamp"
      [] t = "long" -> "bigint"
      [] OTHER -> ""

\* the branches that return a constant; "" when t is none of them
PrimitiveSql(t) ==
    CASE t = "string" -> "string"
      [] t = "boolean" -> "boolean"
      [] t = "integer" -> "int"
      [] t = "number" -> "float"
      [] t = "float" -> "float"
      [] t = "date" -> "date"
      [] t = "datetime" -> "timestamp"
      [] t = "timestamp" -> "bigint"
      [] t = "long" -> "bigint"
      [] OTHER -> ""

\* faulty variant: "null" not told apart from the other keywords
IsNullTypeNever(t) == FALSE

\* data["type"] == "null"
IsNullType(t) == t = "null"

\* `${validatedFieldName(key)} ${...}`
GroupMember(name, type) == name \o " " \o type

\* faulty variant: the column-list form in an object
ObjectMemberNoColon(name, type) == name \o " " \o type

\* `${validatedFieldName(key)}: ${...}`
ObjectMember(name, type) == name \o ": " \o type

\* `struct<${arr.join(", ")}>`
StructOf(list) == "struct<" \o list \o ">"

\* `array<${...}>`
ArrayOf(item) == "array<" \o item \o ">"

\* `map<${...}, ${...}>`
MapSql(key, value) == "map<" \o key \o ", " \o value \o ">"

\* the blanks at both ends removed
RECURSIVE TrimBlanks(_)
TrimBlanks(text) ==
    IF text = "" THEN ""
    ELSE IF CharAt(text, 1) = " " THEN TrimBlanks(SubSeq(text, 2, Len(text)))
    ELSE IF CharAt(text, Len(text)) = " " THEN TrimBlanks(SubSeq(text, 1, Len(text) - 1))
    ELSE text

\* the text of a number with integer digits ip and fraction digits fp
DecimalText(ip, fp) ==
    LET int == IF ip = "" THEN "0" ELSE NatToString(StringToNat(ip))
        frac == StripTrailingZeros(fp)
    IN IF frac = "" THEN int ELSE int \o "." \o frac

\* Number(string), then ToString, for unsigned decimal text (digits with an
\* optional fraction, blanks around it); any other text of the model is no
\* number
StringNumberText(text) ==
    LET t == TrimBlanks(text)
        dots == {i \in 1..Len(t) : CharAt(t, i) = "."}
    IN IF t = "" THEN "0"
       ELSE IF IsDigits(t) THEN DecimalText(t, "")
       ELSE IF Cardinality(dots) = 1 /\ Len(t) > 1
       THEN LET d == CHOOSE i \in dots : TRUE
                ip == SubSeq(t, 1, d - 1)
                fp == SubSeq(t, d + 1, Len(t))
            IN IF (ip = "" \/ IsDigits(ip)) /\ (fp = "" \/ IsDigits(fp))
               THEN DecimalText(ip, fp)
               ELSE "NaN"
       ELSE "NaN"

\* `${Number(x)}`: ToNumber, then ToString
NumberText(v) ==
    CASE v.tag = "num" ->
             IF v.n < 0 THEN "-" \o NatToString(-v.n)
             ELSE IF v.s = "" THEN NatToString(v.n)
             ELSE NatToString(v.n) \o "." \o v.s
      [] v.tag = "bool" -> NatToString(v.n)
      [] v.tag = "null" -> "0"
      [] v.tag = "str" -> StringNumberText(v.s)
      [] OTHER -> "NaN"

\* `decimal(${Number(p)},${Number(s)})`
DecimalSql(p, sc) == "decimal(" \o NumberText(p) \o "," \o NumberText(sc) \o ")"

\* faulty variant: the overlay handed on to the recursive calls
NestedMappingPassed(m) == m

\* The mapping argument of the recursive calls on a child: they are made
\* with one argument, so the callee's mapping is undefined.
NestedMapping(m) == Undefined

\* faulty variant: the overlay dropped when descending into "properties"
PropertiesMappingDropped(m) == Undefined

\* parseSqlSchemaFromObject(data["properties"], mapping)
PropertiesMapping(m) == m

RECURSIVE parseSqlSchemaFromObject(_, _)
RECURSIVE GroupLoop(_, _)
RECURSIVE ObjectLoop(_, _)

\* one iteration of the loop over the keys of a grouping
GroupItem(e, m) ==
    IF Truthy(m) /\ KeyIn(e.k, m)
    THEN LET entry == Lookup(m, e.k) IN
         IF entry.tag \in {"undef", "null"} THEN Throw("TypeError")
         ELSE IF ForIn(entry) = <<>> THEN Throw("TypeError")
         ELSE LET newKey == ForIn(entry)[1].k
                  t == parseSqlSchemaFromObject(ForIn(entry)[1].v, NestedMapping(m))
              IN IF t.err # "none" THEN t
                 ELSE Ok(GroupMember(validatedFieldName(newKey), t.val))
    ELSE LET t == parseSqlSchemaFromObject(e.v, NestedMapping(m))
         IN IF t.err # "none" THEN t
            ELSE Ok(GroupMember(validatedFieldName(e.k), t.val))

\* for (const key in data) { arr.push(...) }, then arr.join(", ")
GroupLoop(es, m) ==
    IF es = <<>> THEN Ok("")
    ELSE LET first == GroupItem(Head(es), m) IN
         IF first.err # "none" THEN first
         ELSE LET rest == GroupLoop(Tail(es), m) IN
              IF rest.err # "none" THEN rest
              ELSE Ok(IF Len(es) = 1 THEN first.val ELSE first.val \o ", " \o rest.val)

\* for (const key in data["properties"]) { arr.push(...) }, then arr.join(", ")
ObjectLoop(es, m) ==
    IF es = <<>> THEN Ok("")
    ELSE LET t == parseSqlSchemaFromObject(Head(es).v, NestedMapping(m)) IN
         IF t.err # "none" THEN t
         ELSE LET rest == ObjectLoop(Tail(es), m) IN
              IF rest.err # "none" THEN rest
              ELSE LET first == ObjectMember(validatedFieldName(Head(es).k), t.val)
                   IN Ok(IF Len(es) = 1 THEN first ELSE first \o ", " \o rest.val)

parseSqlSchemaFromObject(d, m) ==
    IF d.tag \in {"undef", "null"} THEN Throw("TypeError")
    ELSE IF d.tag = "str" /\ Len(d.s) = 1 /\ ~(Truthy(m) /\ KeyIn("0", m))
    THEN Throw("RangeError")
    ELSE LET type == Get(d, "type")
             properties == Get(d, "properties")
         IN
         IF type.tag # "str"
         THEN IF properties.tag # "undef"
              THEN parseSqlSchemaFromObject(properties, PropertiesMapping(m))
              ELSE LET list == GroupLoop(ForIn(d), m)
                   IN IF list.err # "none" THEN list ELSE Ok(StructOf(list.val))
         ELSE IF IsNullType(type.s) THEN Throw("UnsupportedType")
         ELSE IF PrimitiveSql(type.s) # "" THEN Ok(PrimitiveSql(type.s))
         ELSE IF type.s = "array"
         THEN LET item == parseSqlSchemaFromObject(Get(d, "items"), NestedMapping(m))
              IN IF item.err # "none" THEN item ELSE Ok(ArrayOf(item.val))
         ELSE IF type.s = "object"
         THEN LET list == ObjectLoop(ForIn(properties), m)
              IN IF list.err # "none" THEN list ELSE Ok(StructOf(list.val))
         ELSE IF type.s = "decimal"
         THEN IF properties.tag \in {"undef", "null"} THEN Throw("TypeError")
              ELSE Ok(DecimalSql(Get(properties, "precision"), Get(properties, "scale")))
         ELSE IF type.s = "map"
         THEN IF properties.tag \in {"undef", "null"} THEN Throw("TypeError")
              ELSE LET key == parseSqlSchemaFromObject(Get(properties, "key"), NestedMapping(m))
                   IN IF key.err # "none" THEN key
                      ELSE LET value == parseSqlSchemaFromObject(Get(properties, "value"),
                                                                 NestedMapping(m))
                           IN IF value.err # "none" THEN value
                              ELSE Ok(MapSql(key.val, value.val))
         ELSE Throw("UnknownType")

(***************************************************************************)
(* readSqlSchemaFromJson.                                                   *)
(***************************************************************************)
startsWith(text, prefix) ==
    Len(text) >= Len(prefix) /\ SubSeq(text, 1, Len(prefix)) = prefix
endsWith(text, suffix) ==
    Len(text) >= Len(suffix) /\ SubSeq(text, Len(text) - Len(suffix) + 1, Len(text)) = suffix

\* String.prototype.substring(from, to): the smaller argument is the start
substring(text, from, to) ==
    LET lo == IF from <= to THEN from ELSE to
        hi == IF from <= to THEN to ELSE from
    IN SubSeq(text, lo + 1, IF hi <= Len(text) THEN hi ELSE Len(text))

\* faulty variant: the prefix removed, the closing bracket kept
UnwrapKeepsBracket(text) ==
    IF startsWith(text, "struct<") /\ endsWith(text, ">")
    THEN substring(text, 7, Len(text))
    ELSE text

\* the if/else after the call of parseSqlSchemaFromObject
Unwrap(text) ==
    IF startsWith(text, "struct<") /\ endsWith(text, ">")
    THEN substring(text, 7, Len(text) - 1)
    ELSE text

readSqlSchemaFromJson(content, m) ==
    LET r == parseSqlSchemaFromObject(JSONparse(content), m)
    IN IF r.err # "none" THEN r ELSE Ok(Unwrap(r.val))

(***************************************************************************)
(* createTable and getPartitionedBy (src/lib/icebergTableStack.ts) with     *)
(* getSdkCall (src/lib/utils.ts).  An optional string property is a string  *)
(* value or Undefined; an optional array of strings has given = FALSE when  *)
(* the property is absent.                                                  *)
(***************************************************************************)
NoArray == [given |-> FALSE, items |-> <<>>]
StringArray(xs) == [given |-> TRUE, items |-> xs]

\* x == undefined, and the test of x ?? y
Nullish(v) == v.tag \in {"undef", "null"}

\* Array.prototype.join(", ")
RECURSIVE join(_)
join(xs) ==
    IF xs = <<>> THEN ""
    ELSE IF Len(xs) = 1 THEN xs[1]
    ELSE xs[1] \o ", " \o join(Tail(xs))

getPartitionedBy(partitionedBy) ==
    IF partitionedBy.given /\ Len(partitionedBy.items) > 0
    THEN "PARTITIONED BY (" \o join(partitionedBy.items) \o ") "
    ELSE ""

\* an AwsSdkCall; given = FALSE stands for undefined (the event has no call)
NoCall ==
    [given |-> FALSE, service |-> "", action |-> "", Database |-> "", QueryString |-> "",
     OutputLocation |-> "", WorkGroup |-> "", physicalResourceId |-> ""]

getSdkCall(tableName, query, databaseName, outputLocation) ==
    [given |-> TRUE, service |-> "Athena", action |-> "startQueryExecution",
     Database |-> databaseName, QueryString |-> query, OutputLocation |-> outputLocation,
     WorkGroup |-> "primary",
     physicalResourceId |-> "CustomResourceIcebergTable-" \o tableName]

\* the value the runtime-bucket parameter resolves to when the stack is deployed
RuntimeBucketName == "runtime-bucket"

\* outputLocation
OutputLocation(p) ==
    IF Truthy(p.outputBucketName)
    THEN "s3://" \o p.outputBucketName.s \o "/"
         \o (IF Nullish(p.outputBucketPrefix) THEN "" ELSE p.outputBucketPrefix.s)
    ELSE "s3://" \o RuntimeBucketName \o "/" \o "athena/queries" \o "/"

\* location
TableLocation(p) ==
    "s3://" \o p.bucketName \o "/"
    \o (IF Nullish(p.bucketPrefix) THEN "" ELSE p.bucketPrefix.s) \o p.icebergTableName

\* props.extraColumns ? `, ${props.extraColumns?.join(", ")}` : ""
ExtraColumnsText(extraColumns) ==
    IF extraColumns.given THEN ", " \o join(extraColumns.items) ELSE ""

createQuery(p, columns) ==
    "CREATE TABLE IF NOT EXISTS " \o p.icebergTableName \o " "
    \o "(" \o columns \o ExtraColumnsText(p.extraColumns) \o ") "
    \o getPartitionedBy(p.partitionedBy)
    \o "LOCATION '" \o TableLocation(p) \o "' "
    \o "TBLPROPERTIES ('table_type'='ICEBERG', 'format'='parquet', "
    \o "'write_compression'='snappy')"

onCreateCall(p, columns) ==
    IF Nullish(p.onCreateQuery)
    THEN getSdkCall(p.icebergTableName, createQuery(p, columns), p.databaseName,
                    OutputLocation(p) \o "ddl/")
    ELSE getSdkCall(p.icebergTableName, p.onCreateQuery.s, p.databaseName,
                    OutputLocation(p) \o "ddl/")

\* faulty variant: the table dropped when no delete query is given
onDeleteCallDropsTable(p) ==
    getSdkCall(p.icebergTableName,
               IF Nullish(p.onDeleteQuery) THEN "DROP TABLE " \o p.icebergTableName
               ELSE p.onDeleteQuery.s,
               p.databaseName, OutputLocation(p) \o "ddl/")

onDeleteCall(p) ==
    IF Nullish(p.onDeleteQuery) THEN NoCall
    ELSE getSdkCall(p.icebergTableName, p.onDeleteQuery.s, p.databaseName,
                    OutputLocation(p) \o "ddl/")

onUpdateCall(p) ==
    IF Nullish(p.onUpdateQuery) THEN NoCall
    ELSE getSdkCall(p.icebergTableName, p.onUpdateQuery.s, p.databaseName,
                    OutputLocation(p) \o "ddl/")

\* new AwsCustomResource(..., {onCreate, onDelete, onUpdate, ...})
AwsCustomResource(create, delete, update) ==
    [onCreate |-> create, onDelete |-> delete, onUpdate |-> update]
NoResource == AwsCustomResource(NoCall, NoCall, NoCall)

(***************************************************************************)
(* The inputs: documents, overlays and field names.                         *)
(***************************************************************************)
\* the sequences of at most max fields, with distinct keys, over keys x types
FieldLists(keys, types, max) ==
    UNION {{f \in [1..n -> {Ent(k, t) : k \in keys, t \in types}] :
                \A i, j \in 1..n : i # j => f[i].k # f[j].k} : n \in 0..max}

PrimitiveKeywords ==
    {"string", "boolean", "integer", "number", "float", "date", "datetime",
     "timestamp", "long"}

\* Bare type nodes: primitives, decimals and array/map composites over them.
KeyPrims == {Prim("string"), Prim("timestamp")}

RECURSIVE TypeNodes(_)
TypeNodes(depth) ==
    IF depth = 0 THEN {Prim(kw) : kw \in PrimitiveKeywords} \cup {Dec(5, 2), Dec(10, 0)}
    ELSE LET below == TypeNodes(depth - 1) IN
         TypeNodes(0)
         \cup {Arr(x) : x \in below}
         \cup {MapOf(k, x) : k \in KeyPrims, x \in below}
         \cup {MapOf(x, k) : k \in KeyPrims, x \in below}

\* Column documents.
Names == {"id", "json_str", "table", "1"}
MemberNames == {"col1", "col2", "json_str", "1"}
MemberTypeSeq == <<Prim("integer"), Prim("float"), Prim("string"), Prim("long")>>
SimpleTypes ==
    {Prim("string"), Arr(Prim("timestamp")),
     MapOf(Prim("string"), Prim("integer")), Dec(5, 2)}

\* member lists: distinct member names, the i-th member of the i-th type
MemberLists ==
    UNION {{[i \in 1..n |-> Ent(ks[i], MemberTypeSeq[((i - 1) % Len(MemberTypeSeq)) + 1])] :
                ks \in {q \in [1..n -> MemberNames] :
                            \A i, j \in 1..n : i # j => q[i] # q[j]}} :
           n \in 1..MaxMembers}

StructTypes ==
    UNION {{ObjectOf(ms), Group(ms), Wrap(ms), Arr(ObjectOf(ms)),
            MapOf(Prim("string"), Group(ms))} : ms \in MemberLists}

FlatLists == FieldLists(Names, SimpleTypes, MaxFields)

NestedLists ==
    {fs \in UNION {{<<Ent(k, st)>> \o rest, rest \o <<Ent(k, st)>>} :
                       k \in Names, st \in StructTypes,
                       rest \in FieldLists(Names, {Prim("string")}, MaxFields - 1)} :
         \A i, j \in DOMAIN fs : i # j => fs[i].k # fs[j].k}

Docs ==
    {Group(fs) : fs \in FlatLists \cup NestedLists}
    \cup {Wrap(fs) : fs \in FlatLists}
    \cup {ObjectOf(fs) : fs \in FlatLists}

Overlays ==
    {Undefined,
     Obj(<<Ent("json_str",
               Obj(<<Ent("json_map", MapOf(Prim("string"), Prim("integer")))>>))>>),
     Obj(<<Ent("json_str",
               Obj(<<Ent("table", ObjectOf(<<Ent("json_str", Prim("string"))>>))>>))>>)}

\* Documents with field names that every plain object inherits.
KeyNames == {"id", "json_str", "constructor", "toString"}
KeyDocs == {Group(fs) : fs \in FieldLists(KeyNames, SimpleTypes, MaxFields)}
KeyOverlays ==
    {Undefined,
     Obj(<<Ent("json_str",
               Obj(<<Ent("json_map", MapOf(Prim("string"), Prim("integer")))>>))>>)}

\* Documents with nodes outside the input grammar: the unsupported keyword,
\* unknown keywords, type values that are no strings, and composites without
\* their sibling keys; alone, inside each composite, and several at once.
NullNode == Prim("null")
UnknownNodes == {Prim("bogus"), Prim("String")}
NonStringTypeNodes ==
    {Obj(<<Ent("type", Num(5))>>), Obj(<<Ent("type", Bool(TRUE))>>),
     Obj(<<Ent("type", Null)>>)}
WithProperties(kw, ps) == Obj(<<Ent("type", Str(kw)), Ent("properties", Obj(ps))>>)
MalformedNodes ==
    {Prim("decimal"), WithProperties("decimal", <<>>),
     WithProperties("decimal", <<Ent("precision", Num(5))>>),
     WithProperties("decimal", <<Ent("scale", Num(2))>>),
     Prim("map"), WithProperties("map", <<>>),
     WithProperties("map", <<Ent("key", Prim("string"))>>),
     WithProperties("map", <<Ent("value", Prim("string"))>>),
     Prim("array"), Prim("object")}
SoundLeaves == {Prim("string"), Dec(5, 2)}
FaultyLeaves == {NullNode} \cup UnknownNodes \cup NonStringTypeNodes \cup MalformedNodes

FaultContexts(x) ==
    {x, Arr(x), MapOf(x, Prim("string")), MapOf(Prim("string"), x),
     ObjectOf(<<Ent("col1", x)>>), Group(<<Ent("col1", x)>>)}

SeveralFaults ==
    {Prim("string"), NullNode, Prim("bogus"), Obj(<<Ent("type", Num(5))>>),
     WithProperties("decimal", <<>>)}
FaultPairs ==
    UNION {{MapOf(a, b), ObjectOf(<<Ent("col1", a), Ent("col2", b)>>)} :
               a \in SeveralFaults, b \in SeveralFaults}

ErrNames == {"x", "y", "1"}
ErrDocs ==
    {Group(<<Ent("x", t)>>) :
         t \in FaultPairs \cup UNION {FaultContexts(x) : x \in FaultyLeaves \cup SoundLeaves}}
    \cup {Group(fs) : fs \in FieldLists(ErrNames, SeveralFaults, MaxFields)}
    \cup {ObjectOf(<<Ent("x", t)>>) : t \in FaultyLeaves}
    \cup FaultyLeaves

\* Documents with one decimal column, precision and scale given as integers,
\* as numbers with a fraction and as strings, in both orders.
NumericInputs ==
    {Num(0), Num(2), Num(5), Num(10), Num(38), NumLit(5, "0"), NumLit(10, "00"),
     NumLit(5, "5"), NumLit(2, "50"), Str("5"), Str("5.0"), Str("5.5"), Str(" 2 ")}
DecimalDocs ==
    UNION {{Group(<<Ent("amount", WithProperties("decimal",
                        <<Ent("precision", p), Ent("scale", sc)>>))>>),
            Group(<<Ent("amount", WithProperties("decimal",
                        <<Ent("scale", sc), Ent("precision", p)>>))>>)} :
               p \in NumericInputs, sc \in NumericInputs}

\* Documents and overlays whose names the sanitizer changes: reserved words
\* and names with characters outside [a-zA-Z0-9_-], as columns, as members
\* and as replacement keys.
EmitNames == {"table", "e.mail", "json_str"}
EmitMembers == {"order by", "map"}
EmitTypes ==
    {Prim("string")}
    \cup UNION {{ObjectOf(<<Ent(n, Prim("string"))>>), Group(<<Ent(n, Prim("string"))>>),
                 Arr(ObjectOf(<<Ent(n, Prim("string"))>>))} : n \in EmitMembers}
EmitDocs ==
    {Group(fs) : fs \in FieldLists(EmitNames, EmitTypes, MaxFields)}
    \cup {ObjectOf(<<Ent(n, t)>>) : n \in EmitNames, t \in EmitTypes}
EmitOverlays ==
    {Undefined,
     Obj(<<Ent("json_str", Obj(<<Ent("group", Prim("integer"))>>))>>),
     Obj(<<Ent("json_str",
               Obj(<<Ent("my col", ObjectOf(<<Ent("select", Prim("string"))>>))>>))>>)}

\* The schema files under ./src/schemas (Undefined: there is no such file)
\* and the properties createTable is called with.
SchemaFile(name) ==
    CASE name = "events.schema.json" ->
             Group(<<Ent("id", Prim("string")), Ent("json_str", Prim("string")),
                     Ent("ts", Prim("timestamp"))>>)
      [] name = "faulty.schema.json" -> Group(<<Ent("x", Prim("null"))>>)
      [] OTHER -> Undefined

TableProps ==
    [icebergTableName : {"events"},
     databaseName : {"db"},
     bucketName : {"lake"},
     bucketPrefix : {Undefined, Str("raw/")},
     outputBucketName : {Undefined, Str("out")},
     outputBucketPrefix : {Undefined},
     columns : {Undefined, Str("id string, day date")},
     schemaFileName : {"events.schema.json", "faulty.schema.json", "missing.schema.json"},
     mapping : {Undefined,
                Obj(<<Ent("json_str",
                          Obj(<<Ent("json_map",
                                    MapOf(Prim("string"), Prim("integer")))>>))>>)},
     extraColumns : {NoArray, StringArray(<<>>), StringArray(<<"ts2 timestamp", "sum float">>)},
     partitionedBy : {NoArray, StringArray(<<>>), StringArray(<<"id", "hour(ts)">>)},
     onCreateQuery : {Undefined, Str("CREATE TABLE events (id string) LOCATION 's3://lake/e'")},
     onUpdateQuery : {Undefined, Str("ALTER TABLE events ADD COLUMNS (sum float)")},
     onDeleteQuery : {Undefined, Str("DROP TABLE events")}]

NoProps ==
    [icebergTableName |-> "", databaseName |-> "", bucketName |-> "",
     bucketPrefix |-> Undefined, outputBucketName |-> Undefined,
     outputBucketPrefix |-> Undefined, columns |-> Undefined, schemaFileName |-> "",
     mapping |-> Undefined, extraColumns |-> NoArray, partitionedBy |-> NoArray,
     onCreateQuery |-> Undefined, onUpdateQuery |-> Undefined, onDeleteQuery |-> Undefined]

\* Documents whose fields may be named "properties" or "type", with overlays
\* for a key of the document, for the key "properties" and for a key that no
\* document has.
SiblingNames == {"id", "json_str", "properties", "type"}
SiblingTypes ==
    {Prim("string"), Dec(5, 2), ObjectOf(<<Ent("col1", Prim("integer"))>>)}
SiblingDocs == {Group(fs) : fs \in FieldLists(SiblingNames, SiblingTypes, MaxFields)}
SiblingOverlays ==
    {Undefined,
     Obj(<<Ent("json_str",
               Obj(<<Ent("json_map", MapOf(Prim("string"), Prim("integer")))>>))>>),
     Obj(<<Ent("properties", Obj(<<Ent("props", Prim("string"))>>))>>),
     Obj(<<Ent("absent", Obj(<<Ent("extra", Prim("string"))>>))>>)}

\* Documents whose column json_str is sound or at fault, alone or after a
\* sound column, with overlays that replace json_str by a sound or a faulty
\* node.
ReplacedKey == "json_str"
OverlayLeaves == FaultyLeaves \cup SoundLeaves
ReplacedDocs ==
    UNION {{Group(<<Ent(ReplacedKey, orig)>>),
            Group(<<Ent("id", Prim("integer")), Ent(ReplacedKey, orig)>>)} :
               orig \in OverlayLeaves}
ReplacingOverlays ==
    {Undefined}
    \cup {Obj(<<Ent(ReplacedKey, Obj(<<Ent("json_map", repl)>>))>>) : repl \in OverlayLeaves}

\* Field names: every reserved word as listed, in capitals, capitalised,
\* followed by a space and preceded by a dot; and all short strings over
\* a few characters.
ToUpperChar(c) ==
    IF \E i \in DOMAIN LowerSeq : LowerSeq[i] = c
    THEN UpperSeq[CHOOSE i \in DOMAIN LowerSeq : LowerSeq[i] = c]
    ELSE c

RECURSIVE ToUpper(_)
ToUpper(s) ==
    IF s = "" THEN "" ELSE ToUpperChar(CharAt(s, 1)) \o ToUpper(SubSeq(s, 2, Len(s)))

NameChars == {"a", "s", "A", "S", "_", "-", " ", ".", "1", Backtick}

RECURSIVE ShortNames(_)
ShortNames(len) ==
    IF len = 0 THEN {""}
    ELSE LET shorter == ShortNames(len - 1) IN
         shorter \cup {n \o c : n \in shorter, c \in NameChars}

FieldNames ==
    ShortNames(MaxNameLen)
    \cup {"my_col", "json_str", "Total Amount", "order-id", "e.mail"}
    \cup UNION {{r, ToUpper(r), ToUpperChar(CharAt(r, 1)) \o SubSeq(r, 2, Len(r)),
                 r \o " ", "." \o r} : r \in RESERVED_KEYWORDS}

(***************************************************************************)
(* The state: the last call and what it computed.                           *)
(*   op            the function called ("none" before any call)             *)
(*   file_content  the document read, members in the order of the text      *)
(*   data          JSON.parse(file_content)                                 *)
(*   mapping       the overlay argument (Undefined when not given)          *)
(*   result        what parseSqlSchemaFromObject(data, mapping) yielded     *)
(*   returned      what readSqlSchemaFromJson yielded                       *)
(*   fieldName     the argument of validatedFieldName                       *)
(*   validated     what validatedFieldName returned                         *)
(*   props         the properties createTable was called with               *)
(*   tableRes      the custom resource createTable configured               *)
(*   phase         "undeclared", then "failed" (createTable threw) or       *)
(*                 "declared", "created", "deleted" (the resource's life)   *)
(*   executed      the lifecycle events so far, each with the Athena call   *)
(*                 it made, if any                                          *)
(***************************************************************************)
Init ==
    /\ op = "none"
    /\ file_content = Undefined
    /\ data = Undefined
    /\ mapping = Undefined
    /\ result = Pending
    /\ returned = Pending
    /\ fieldName = ""
    /\ validated = ""
    /\ props = NoProps
    /\ tableRes = NoResource
    /\ phase = "undeclared"
    /\ executed = <<>>

Compile(content, m) ==
    /\ op' = "readSqlSchemaFromJson"
    /\ file_content' = content
    /\ mapping' = m
    /\ data' = JSONparse(content)
    /\ result' = parseSqlSchemaFromObject(data', m)
    /\ returned' = IF result'.err # "none" THEN result' ELSE Ok(Unwrap(result'.val))
    /\ UNCHANGED <<fieldName, validated>>
    /\ UNCHANGED stackVars

\* readSqlSchemaFromJson on a column document
ReadSqlSchemaFromJson ==
    /\ op = "none"
    /\ \E content \in Docs, m \in Overlays : Compile(content, m)

\* readSqlSchemaFromJson on a document that is a bare type node
ReadTypeNode ==
    /\ op = "none"
    /\ \E content \in TypeNodes(MaxDepth) : Compile(content, Undefined)

\* readSqlSchemaFromJson on a document with inherited property names
ReadKeyedSchema ==
    /\ op = "none"
    /\ \E content \in KeyDocs, m \in KeyOverlays : Compile(content, m)

\* readSqlSchemaFromJson on a document with nodes outside the grammar
ReadFaultySchema ==
    /\ op = "none"
    /\ \E content \in ErrDocs : Compile(content, Undefined)

\* readSqlSchemaFromJson on a document with a decimal column
ReadDecimalSchema ==
    /\ op = "none"
    /\ \E content \in DecimalDocs : Compile(content, Undefined)

\* readSqlSchemaFromJson on a document whose names the sanitizer changes
ReadNamedSchema ==
    /\ op = "none"
    /\ \E content \in EmitDocs, m \in EmitOverlays : Compile(content, m)

\* readSqlSchemaFromJson on a document with fields named "properties" or "type"
ReadSiblingSchema ==
    /\ op = "none"
    /\ \E content \in SiblingDocs, m \in SiblingOverlays : Compile(content, m)

\* readSqlSchemaFromJson on a document whose column the overlay replaces
ReadReplacedSchema ==
    /\ op = "none"
    /\ \E content \in ReplacedDocs, m \in ReplacingOverlays : Compile(content, m)

\* validatedFieldName called on its own
ValidatedFieldName ==
    /\ op = "none"
    /\ \E name \in FieldNames :
          /\ fieldName' = name
          /\ validated' = validatedFieldName(name)
    /\ op' = "validatedFieldName"
    /\ UNCHANGED <<file_content, data, mapping, result, returned>>
    /\ UNCHANGED stackVars

\* createTable(props).  The stack holds one table: a second call would add
\* constructs under ids that exist already.  readFileSync throws when there
\* is no such file; an exception of readSqlSchemaFromJson leaves createTable
\* before the resource is made.
CreateTable ==
    /\ phase = "undeclared"
    /\ \E p \in TableProps :
          LET compiles == Nullish(p.columns)
              content == SchemaFile(p.schemaFileName)
              columns == IF ~compiles THEN Ok(p.columns.s)
                         ELSE IF content.tag = "undef" THEN Throw("ENOENT")
                         ELSE readSqlSchemaFromJson(content, p.mapping)
          IN /\ props' = p
             /\ op' = "createTable"
             /\ IF compiles /\ content.tag # "undef"
                THEN /\ file_content' = content
                     /\ mapping' = p.mapping
                     /\ data' = JSONparse(content)
                     /\ result' = parseSqlSchemaFromObject(data', p.mapping)
                     /\ returned' = columns
                ELSE UNCHANGED <<file_content, data, mapping, result, returned>>
             /\ IF columns.err # "none"
                THEN /\ tableRes' = NoResource
                     /\ phase' = "failed"
                ELSE /\ tableRes' = AwsCustomResource(onCreateCall(p, columns.val),
                                                      onDeleteCall(p), onUpdateCall(p))
                     /\ phase' = "declared"
    /\ UNCHANGED <<fieldName, validated, executed>>

\* what a lifecycle event does: the call configured for it is made, if any
Event(name, call) ==
    [event |-> name, ran |-> call.given, QueryString |-> call.QueryString,
     Database |-> call.Database, OutputLocation |-> call.OutputLocation]

\* the stack is deployed: the resource is created
OnCreate ==
    /\ phase \in {"declared", "deleted"}
    /\ Len(executed) < MaxEvents
    /\ executed' = Append(executed, Event("create", tableRes.onCreate))
    /\ phase' = "created"
    /\ UNCHANGED <<op, file_content, data, mapping, result, returned, fieldName, validated,
                   props, tableRes>>

\* the stack is deployed again with the resource changed
OnUpdate ==
    /\ phase = "created"
    /\ Len(executed) < MaxEvents
    /\ executed' = Append(executed, Event("update", tableRes.onUpdate))
    /\ UNCHANGED <<op, file_content, data, mapping, result, returned, fieldName, validated,
                   props, tableRes, phase>>

\* the stack or the resource is deleted
OnDelete ==
    /\ phase = "created"
    /\ Len(executed) < MaxEvents
    /\ executed' = Append(executed, Event("delete", tableRes.onDelete))
    /\ phase' = "deleted"
    /\ UNCHANGED <<op, file_content, data, mapping, result, returned, fieldName, validated,
                   props, tableRes>>

Next == ReadSqlSchemaFromJson \/ ValidatedFieldName
Spec == Init /\ [][Next]_vars

NextTypes == ReadTypeNode \/ ValidatedFieldName
SpecTypes == Init /\ [][NextTypes]_vars

NextKeys == ReadKeyedSchema \/ ValidatedFieldName
SpecKeys == Init /\ [][NextKeys]_vars

NextNames == ValidatedFieldName
SpecNames == Init /\ [][NextNames]_vars

NextErrors == ReadFaultySchema
SpecErrors == Init /\ [][NextErrors]_vars

NextDecimals == ReadDecimalSchema
SpecDecimals == Init /\ [][NextDecimals]_vars

NextEmit == ReadNamedSchema
SpecEmit == Init /\ [][NextEmit]_vars

NextSiblings == ReadSiblingSchema
SpecSiblings == Init /\ [][NextSiblings]_vars

NextReplaced == ReadReplacedSchema
SpecReplaced == Init /\ [][NextReplaced]_vars

NextTable == CreateTable \/ OnCreate \/ OnUpdate \/ OnDelete
SpecTable == Init /\ [][NextTable]_vars

(***************************************************************************)
(* The specification's own definitions (spec.md sections 4.1 to 4.4), which *)
(* the claims compare the program against.                                  *)
(***************************************************************************)
\* 4.2: strip every character not in [A-Za-z0-9_-]
RECURSIVE SanitizeStrip(_)
SanitizeStrip(name) ==
    IF name = "" THEN ""
    ELSE LET last == CharAt(name, Len(name))
             front == SanitizeStrip(SubSeq(name, 1, Len(name) - 1))
         IN IF last \in LegalChars THEN front \o last ELSE front

\* 4.2: the lowercase form of the original name is a reserved word
RECURSIVE LowercaseForm(_)
LowercaseForm(name) ==
    IF name = "" THEN ""
    ELSE LowercaseForm(SubSeq(name, 1, Len(name) - 1)) \o ToLowerChar(CharAt(name, Len(name)))

IsReservedName(name) == LowercaseForm(name) \in RESERVED_KEYWORDS

\* 4.2: sanitize
Sanitize(name) ==
    IF name = "" THEN ""
    ELSE IF IsReservedName(name) THEN Backtick \o SanitizeStrip(name) \o Backtick
    ELSE SanitizeStrip(name)

IsImplicitGrouping(v) == v.tag = "obj" /\ Get(v, "type").tag # "str"
IsExplicitObject(v) == v.tag = "obj" /\ Get(v, "type") = Str("object")

\* the named children of a grouping: its own members, or those under "properties"
GroupingFields(v) == IF HasOwn(v, "properties") THEN Get(v, "properties").ents ELSE v.ents

\* section 6: the node follows the input grammar
RECURSIVE WellTyped(_)
WellTyped(v) ==
    /\ v.tag = "obj"
    /\ LET t == Get(v, "type")
           ps == Get(v, "properties")
       IN IF t.tag = "str"
          THEN \/ t.s \in PrimitiveKeywords
               \/ t.s = "array" /\ WellTyped(Get(v, "items"))
               \/ t.s = "map" /\ WellTyped(Get(ps, "key")) /\ WellTyped(Get(ps, "value"))
               \/ t.s = "decimal" /\ Get(ps, "precision").tag = "num"
                                  /\ Get(ps, "scale").tag = "num"
               \/ t.s = "object" /\ ps.tag = "obj"
                                 /\ \A i \in DOMAIN ps.ents : WellTyped(ps.ents[i].v)
          ELSE \A i \in DOMAIN GroupingFields(v) : WellTyped(GroupingFields(v)[i].v)

\* 4.1: the dispatch table, without any overlay
RECURSIVE SpecType(_)
RECURSIVE SpecFields(_, _)
SpecType(v) ==
    LET t == Get(v, "type")
        ps == Get(v, "properties")
    IN IF t.tag # "str" THEN "struct<" \o SpecFields(GroupingFields(v), " ") \o ">"
       ELSE CASE t.s = "string" -> "string"
              [] t.s = "boolean" -> "boolean"
              [] t.s = "integer" -> "int"
              [] t.s \in {"number", "float"} -> "float"
              [] t.s = "date" -> "date"
              [] t.s = "datetime" -> "timestamp"
              [] t.s \in {"timestamp", "long"} -> "bigint"
              [] t.s = "decimal" ->
                   "decimal(" \o NatToString(Get(ps, "precision").n) \o ","
                              \o NatToString(Get(ps, "scale").n) \o ")"
              [] t.s = "array" -> "array<" \o SpecType(Get(v, "items")) \o ">"
              [] t.s = "map" ->
                   "map<" \o SpecType(Get(ps, "key")) \o ", "
                          \o SpecType(Get(ps, "value")) \o ">"
              [] t.s = "object" -> "struct<" \o SpecFields(ps.ents, ": ") \o ">"

\* the fields as name-separator-type, joined by ", "
SpecFields(es, sep) ==
    IF es = <<>> THEN ""
    ELSE LET first == Sanitize(es[1].k) \o sep \o SpecType(es[1].v)
         IN IF Len(es) = 1 THEN first ELSE first \o ", " \o SpecFields(Tail(es), sep)

\* 4.3: the fields with those whose key the overlay holds replaced in place
ResolveChildren(es, m) ==
    [i \in DOMAIN es |->
        IF HasOwn(m, es[i].k) THEN Get(m, es[i].k).ents[1] ELSE es[i]]

\* the node is built from primitive keywords and array/map composites only
RECURSIVE IsPrimArrayMap(_)
IsPrimArrayMap(v) ==
    LET t == Get(v, "type").s
        ps == Get(v, "properties")
    IN \/ t \in PrimitiveKeywords
       \/ t = "array" /\ IsPrimArrayMap(Get(v, "items"))
       \/ t = "map" /\ IsPrimArrayMap(Get(ps, "key")) /\ IsPrimArrayMap(Get(ps, "value"))

\* every key that occurs in the tree below v
RECURSIVE KeysBelow(_)
KeysBelow(v) ==
    IF v.tag # "obj" THEN {}
    ELSE {v.ents[i].k : i \in DOMAIN v.ents}
         \cup UNION {KeysBelow(v.ents[i].v) : i \in DOMAIN v.ents}

\* section 7: the condition raised for the first faulty node, the nodes taken
\* depth first in the order of the fields; "none" when no node is faulty
RECURSIVE SpecFault(_)
RECURSIVE SpecFaultList(_)
SpecFault(v) ==
    IF v.tag # "obj" THEN "MalformedNode"
    ELSE IF ~HasOwn(v, "type") THEN SpecFaultList(GroupingFields(v))
    ELSE LET t == Get(v, "type")
             ps == Get(v, "properties")
         IN IF t.tag # "str" THEN "UnknownType"
            ELSE IF t.s = "null" THEN "UnsupportedType"
            ELSE IF t.s \in PrimitiveKeywords THEN "none"
            ELSE IF t.s = "array"
            THEN IF ~HasOwn(v, "items") THEN "MalformedNode" ELSE SpecFault(Get(v, "items"))
            ELSE IF t.s = "object"
            THEN IF ps.tag # "obj" THEN "MalformedNode" ELSE SpecFaultList(ps.ents)
            ELSE IF t.s = "decimal"
            THEN IF ps.tag # "obj" \/ ~HasOwn(ps, "precision") \/ ~HasOwn(ps, "scale")
                 THEN "MalformedNode" ELSE "none"
            ELSE IF t.s = "map"
            THEN IF ps.tag # "obj" \/ ~HasOwn(ps, "key") \/ ~HasOwn(ps, "value")
                 THEN "MalformedNode"
                 ELSE IF SpecFault(Get(ps, "key")) # "none" THEN SpecFault(Get(ps, "key"))
                 ELSE SpecFault(Get(ps, "value"))
            ELSE "UnknownType"

SpecFaultList(es) ==
    IF es = <<>> THEN "none"
    ELSE IF SpecFault(es[1].v) # "none" THEN SpecFault(es[1].v)
    ELSE SpecFaultList(Tail(es))

\* a plain integer numeral: digits, no sign, no fraction, no padding
IsNumeral(text) == IsDigits(text) /\ (Len(text) = 1 \/ CharAt(text, 1) # "0")

\* the numeric input, as written in the document, denotes an integer
IsIntegerValued(v) ==
    \/ v.tag = "num"
    \/ v.tag = "numlit" /\ \A i \in 1..Len(v.s) : CharAt(v.s, i) = "0"
    \/ v.tag = "str" /\ LET t == TrimBlanks(v.s) IN
           \E i \in 1..Len(t) :
               /\ IsDigits(SubSeq(t, 1, i))
               /\ SubSeq(t, i + 1, Len(t)) \in {"", ".", ".0", ".00"}

\* the integer it denotes
IntegerOf(v) ==
    IF v.tag = "str"
    THEN LET t == TrimBlanks(v.s)
             i == CHOOSE i \in 1..Len(t) :
                      IsDigits(SubSeq(t, 1, i)) /\ (i = Len(t) \/ CharAt(t, i + 1) = ".")
         IN StringToNat(SubSeq(t, 1, i))
    ELSE v.n

\* 4.2 applied k times in a row to a name
RECURSIVE SanitizePasses(_, _)
SanitizePasses(name, k) == IF k = 0 THEN name ELSE Sanitize(SanitizePasses(name, k - 1))

\* 4.1 with every field name sanitized k times
RECURSIVE SpecTypePasses(_, _)
RECURSIVE SpecFieldsPasses(_, _, _)
SpecTypePasses(v, k) ==
    LET t == Get(v, "type")
        ps == Get(v, "properties")
    IN IF t.tag # "str"
       THEN "struct<" \o SpecFieldsPasses(GroupingFields(v), " ", k) \o ">"
       ELSE CASE t.s = "array" -> "array<" \o SpecTypePasses(Get(v, "items"), k) \o ">"
              [] t.s = "map" ->
                   "map<" \o SpecTypePasses(Get(ps, "key"), k) \o ", "
                          \o SpecTypePasses(Get(ps, "value"), k) \o ">"
              [] t.s = "object" -> "struct<" \o SpecFieldsPasses(ps.ents, ": ", k) \o ">"
              [] OTHER -> SpecType(v)

SpecFieldsPasses(es, sep, k) ==
    IF es = <<>> THEN ""
    ELSE LET first == SanitizePasses(es[1].k, k) \o sep \o SpecTypePasses(es[1].v, k)
         IN IF Len(es) = 1 THEN first
            ELSE first \o ", " \o SpecFieldsPasses(Tail(es), sep, k)

\* the document with the overlay applied where the code consults it
EffectiveDocument(v, m) ==
    IF IsImplicitGrouping(v) THEN Group(ResolveChildren(GroupingFields(v), m)) ELSE v

Compiled == op = "readSqlSchemaFromJson"

HasStructColumn(v) ==
    \E i \in DOMAIN GroupingFields(v) :
        LET c == GroupingFields(v)[i].v
        IN IsExplicitObject(c) \/ IsImplicitGrouping(c)

C2_StructRendering ==
    (Compiled /\ mapping = Undefined /\ IsImplicitGrouping(data) /\ HasStructColumn(data))
        => result = Ok(SpecType(data))

C2_Witness ==
    /\ Compiled
    /\ data = Group(<<Ent("id", ObjectOf(<<Ent("col1", Prim("integer")),
                                            Ent("col2", Prim("float"))>>))>>)
    /\ returned = Ok("id struct<col1: int, col2: float>")

\* C3: for a root document that is an implicit grouping of fields f1..fn
\* whose types all map, compile returns exactly the ", "-joined list of
\* "sanitize(fi) map(fi)": the outer struct< and > removed, nothing else.
C3_Unwrap ==
    (Compiled /\ mapping = Undefined /\ IsImplicitGrouping(data) /\ WellTyped(data))
        => returned = Ok(SpecFields(GroupingFields(data), " "))

C3_Witness ==
    /\ Compiled
    /\ data = Group(<<Ent("id", Group(<<Ent("col1", Prim("integer"))>>)),
                      Ent("table", Prim("string"))>>)
    /\ result = Ok("struct<id struct<col1 int>, " \o Backtick \o "table" \o Backtick
                   \o " string>")
    /\ returned = Ok("id struct<col1 int>, " \o Backtick \o "table" \o Backtick
                     \o " string")

\* C4: a root document that is an explicit object compiles to the flat list
\* of "name type" pairs, the same string as the implicit grouping of the same
\* fields.
C4_ExplicitObjectRoot ==
    (Compiled /\ mapping = Undefined /\ IsExplicitObject(data) /\ WellTyped(data))
        => returned = Ok(SpecFields(Get(data, "properties").ents, " "))

\* C5: a root document that is a bare primitive, array, map or decimal makes
\* compile fail.
IsBareTypeNode(v) ==
    Get(v, "type").tag = "str"
    /\ Get(v, "type").s \in PrimitiveKeywords \cup {"array", "map", "decimal"}

C5_InvalidRootType ==
    (Compiled /\ IsBareTypeNode(data)) => returned.err # "none"

\* C6: the columns and struct members appear in the order in which the
\* fields are declared in the source document, whatever the field names; a
\* field replaced through the overlay keeps the position of the original key.
C6_DeclaredOrder ==
    (Compiled /\ IsImplicitGrouping(file_content) /\ WellTyped(file_content))
        => returned = Ok(SpecFields(ResolveChildren(GroupingFields(file_content), mapping),
                                    " "))

\* C7: a direct field of the root grouping whose key the overlay holds is
\* emitted as "sanitize(k2) map(N)"; every other field is emitted from its
\* original key and definition.
C7_OverlaySubstitution ==
    (Compiled /\ IsImplicitGrouping(data) /\ WellTyped(data))
        => returned = Ok(SpecFields(ResolveChildren(GroupingFields(data), mapping), " "))

\* C8: an overlay entry for k affects only k as a direct column of the
\* top-level grouping; an occurrence of k nested deeper, in the document or in
\* a replacement node, keeps its name and its type.
NestedOccurrence(v, m) ==
    \E j \in DOMAIN m.ents :
        \/ \E i \in DOMAIN GroupingFields(v) :
               m.ents[j].k \in KeysBelow(GroupingFields(v)[i].v)
        \/ m.ents[j].k \in KeysBelow(m.ents[j].v.ents[1].v)

C8_OverlayScope ==
    (Compiled /\ IsImplicitGrouping(data) /\ Truthy(mapping) /\ NestedOccurrence(data, mapping))
        => returned = Ok(SpecFields(ResolveChildren(GroupingFields(data), mapping), " "))

C8_Witness ==
    /\ Compiled
    /\ data = Group(<<Ent("json_str", Prim("string")),
                      Ent("id", Group(<<Ent("json_str", Prim("integer"))>>))>>)
    /\ HasOwn(mapping, "json_str")
    /\ Get(mapping, "json_str").ents[1].k = "json_map"
    /\ returned = Ok("json_map map<string, int>, id struct<json_str int>")

\* C9 as stated: the overlay is consulted at every object-field boundary the
\* Type Mapper visits: the properties of an explicit object (an explicit-
\* object root included) and the groupings below the root.
RECURSIVE SpecTypeOverlaid(_, _)
RECURSIVE SpecFieldsOverlaid(_, _, _)
SpecTypeOverlaid(v, m) ==
    LET t == Get(v, "type")
        ps == Get(v, "properties")
    IN IF t.tag # "str"
       THEN "struct<" \o SpecFieldsOverlaid(GroupingFields(v), " ", m) \o ">"
       ELSE CASE t.s = "array" -> "array<" \o SpecTypeOverlaid(Get(v, "items"), m) \o ">"
              [] t.s = "map" ->
                   "map<" \o SpecTypeOverlaid(Get(ps, "key"), m) \o ", "
                          \o SpecTypeOverlaid(Get(ps, "value"), m) \o ">"
              [] t.s = "object" -> "struct<" \o SpecFieldsOverlaid(ps.ents, ": ", m) \o ">"
              [] OTHER -> SpecType(v)

SpecFieldsOverlaid(es, sep, m) ==
    IF es = <<>> THEN ""
    ELSE LET first ==
                 IF HasOwn(m, es[1].k)
                 THEN Sanitize(Get(m, es[1].k).ents[1].k) \o sep
                          \o SpecType(Get(m, es[1].k).ents[1].v)
                 ELSE Sanitize(es[1].k) \o sep \o SpecTypeOverlaid(es[1].v, m)
         IN IF Len(es) = 1 THEN first
            ELSE first \o ", " \o SpecFieldsOverlaid(Tail(es), sep, m)

C9_OverlayEverywhere ==
    (Compiled /\ WellTyped(data)) => result = Ok(SpecTypeOverlaid(data, mapping))

\* C9 as amended: the overlay is consulted only for the direct children of a
\* root implicit grouping (its own members, or those under its "properties");
\* the properties of an explicit object, an explicit-object root included,
\* and the groupings below the root are rendered from their original keys and
\* definitions.
C9_OverlayRootOnly ==
    (Compiled /\ WellTyped(data))
        => result = Ok(IF IsImplicitGrouping(data)
                       THEN "struct<"
                            \o SpecFields(ResolveChildren(GroupingFields(data), mapping), " ")
                            \o ">"
                       ELSE SpecType(data))

C9_Witness ==
    /\ Compiled
    /\ data = ObjectOf(<<Ent("json_str", Prim("string"))>>)
    /\ HasOwn(mapping, "json_str")
    /\ result = Ok("struct<json_str: string>")

\* C10: validatedFieldName equals the reference sanitize for every name: the
\* empty name gives the empty string; otherwise the characters outside
\* [A-Za-z0-9_-] are removed and the result is wrapped in backticks exactly
\* when the lowercase form of the original name is a reserved word.
C10_Sanitize ==
    op = "validatedFieldName" => validated = Sanitize(fieldName)

C10_Witness ==
    /\ op = "validatedFieldName"
    /\ fieldName = "Table"
    /\ validated = Backtick \o "Table" \o Backtick

\* C11: for every input name, the sanitized name is either wrapped in
\* backticks or its lowercase form is not a reserved word.
IsQuoted(text) ==
    Len(text) >= 2 /\ CharAt(text, 1) = Backtick /\ CharAt(text, Len(text)) = Backtick

C11_SafeIdentifier ==
    op = "validatedFieldName" => (IsQuoted(validated) \/ ~IsReservedName(validated))

\* C12: a name that is not a reserved word and has only characters of
\* [A-Za-z0-9_-] is returned as it is, and sanitizing the result again
\* changes nothing; for a reserved word the second pass differs from the
\* first: it removes the backticks and leaves the bare word.
IsLegalName(name) == \A i \in 1..Len(name) : CharAt(name, i) \in LegalChars

C12_Idempotence ==
    op = "validatedFieldName" =>
        /\ (IsLegalName(fieldName) /\ ~IsReservedName(fieldName))
              => /\ validated = fieldName
                 /\ validatedFieldName(validated) = validated
        /\ IsReservedName(fieldName)
              => /\ validatedFieldName(validated) # validated
                 /\ validatedFieldName(validated) = fieldName

C12_Witness ==
    /\ op = "validatedFieldName"
    /\ fieldName = "table"
    /\ validated = Backtick \o "table" \o Backtick
    /\ validatedFieldName(validated) = "table"

\* C13: when the first node at fault is one whose type is the string "null"
\* (a top-level field, an array item, a map key or value, a member of an
\* explicit object, the root), compile fails with the condition for the
\* unsupported type, which is not the one for an unknown type, and returns no
\* string.
C13_UnsupportedType ==
    (Compiled /\ SpecFault(data) = "UnsupportedType")
        => /\ returned = Throw("UnsupportedType")
           /\ returned # Throw("UnknownType")

C13_Witness ==
    /\ Compiled
    /\ data = Group(<<Ent("x", MapOf(Prim("string"), Prim("null")))>>)
    /\ returned = Throw("UnsupportedType")

\* C14: a node with a "type" key whose value is outside the keyword set (an
\* unrecognized string, a differently-cased keyword, a number, a boolean, the
\* JSON null) makes compile fail with the condition for an unknown type.
C14_UnknownType ==
    (Compiled /\ SpecFault(data) = "UnknownType") => returned = Throw("UnknownType")

\* C15: a composite node without its sibling keys (decimal, map or object
\* without properties, decimal without precision or scale, map without key or
\* value, array without items) makes compile fail and return no string.
C15_MalformedNode ==
    (Compiled /\ SpecFault(data) = "MalformedNode") => returned.err # "none"

\* C16: when a node of the document is at fault, compile raises and returns
\* no string, and the error is the one of the first faulty node in depth-first
\* order of declaration (a generic runtime error counts for a malformed node).
C16_FirstFault ==
    (Compiled /\ SpecFault(file_content) # "none")
        => /\ returned.val = ""
           /\ IF SpecFault(file_content) = "MalformedNode"
              THEN returned.err \in {"MalformedNode", "TypeError"}
              ELSE returned.err = SpecFault(file_content)

\* C20: every emitted field name (column, member of an explicit object or of
\* a grouping at any depth, replacement key of the overlay) is the effective
\* key sanitized exactly once: the output is the rendering with one pass, and
\* a rendering with no pass or with more passes equals the output only where
\* it equals the one-pass rendering.
MaxPasses == 2

C20_SanitizedOnce ==
    (Compiled /\ WellTyped(data))
        => \A k \in 0..MaxPasses :
               (result = Ok(SpecTypePasses(EffectiveDocument(data, mapping), k)))
                   <=> (SpecTypePasses(EffectiveDocument(data, mapping), k)
                            = SpecTypePasses(EffectiveDocument(data, mapping), 1))

C20_Witness ==
    /\ Compiled
    /\ data = Group(<<Ent("json_str", Prim("string")),
                      Ent("table", ObjectOf(<<Ent("order by", Prim("string"))>>))>>)
    /\ HasOwn(mapping, "json_str")
    /\ returned = Ok("mycol struct<" \o Backtick \o "select" \o Backtick \o ": string>, "
                     \o Backtick \o "table" \o Backtick \o " struct<orderby: string>")

\* C19: over every sequence of lifecycle events of the table's resource, a
\* create runs props.onCreateQuery when given and otherwise the generated
\* "CREATE TABLE IF NOT EXISTS <table> (<columns>[, extraColumns])
\* [PARTITIONED BY (...)] LOCATION ... TBLPROPERTIES ..." (PARTITIONED BY left
\* out when partitionedBy is absent or empty, props.columns taken as it is
\* when given, the compiled schema file otherwise); an update or a delete
\* runs its query when onUpdateQuery / onDeleteQuery is given and runs no
\* query otherwise.
RECURSIVE CommaList(_)
CommaList(xs) ==
    IF Len(xs) = 0 THEN ""
    ELSE CommaList(SubSeq(xs, 1, Len(xs) - 1)) \o (IF Len(xs) > 1 THEN ", " ELSE "")
         \o xs[Len(xs)]

IsGiven(v) == v.tag = "str"

ColumnsOf(p) ==
    IF IsGiven(p.columns) THEN p.columns.s
    ELSE readSqlSchemaFromJson(SchemaFile(p.schemaFileName), p.mapping).val

\* the text up to LOCATION; an extraColumns that is given but empty is left
\* open: with or without the comma
CreateHeads(p) ==
    {"CREATE TABLE IF NOT EXISTS " \o p.icebergTableName \o " (" \o ColumnsOf(p) \o extra
         \o ") "
         \o (IF p.partitionedBy.given /\ p.partitionedBy.items # <<>>
             THEN "PARTITIONED BY (" \o CommaList(p.partitionedBy.items) \o ") " ELSE "")
         \o "LOCATION '" :
     extra \in IF ~p.extraColumns.given THEN {""}
               ELSE IF p.extraColumns.items = <<>> THEN {"", ", "}
               ELSE {", " \o CommaList(p.extraColumns.items)}}

HasTblProperties(q) ==
    \E i \in 1..Len(q) :
        /\ i + Len("' TBLPROPERTIES (") - 1 <= Len(q)
        /\ SubSeq(q, i, i + Len("' TBLPROPERTIES (") - 1) = "' TBLPROPERTIES ("

IsGeneratedQuery(q, p) ==
    /\ \E head \in CreateHeads(p) : startsWith(q, head)
    /\ HasTblProperties(q)

EventAsConfigured(e, p) ==
    CASE e.event = "create" ->
             /\ e.ran
             /\ IF IsGiven(p.onCreateQuery) THEN e.QueryString = p.onCreateQuery.s
                ELSE IsGeneratedQuery(e.QueryString, p)
      [] e.event = "update" ->
             IF IsGiven(p.onUpdateQuery)
             THEN e.ran /\ e.QueryString = p.onUpdateQuery.s
             ELSE ~e.ran
      [] e.event = "delete" ->
             IF IsGiven(p.onDeleteQuery)
             THEN e.ran /\ e.QueryString = p.onDeleteQuery.s
             ELSE ~e.ran

RECURSIVE TopLevelCommas(_, _)
TopLevelCommas(text, depth) ==
    IF text = "" THEN 0
    ELSE LET c == CharAt(text, 1)
             rest == SubSeq(text, 2, Len(text))
         IN IF c \in {"<", "("} THEN TopLevelCommas(rest, depth + 1)
            ELSE IF c \in {">", ")"} THEN TopLevelCommas(rest, depth - 1)
            ELSE (IF c = "," /\ depth = 0 THEN 1 ELSE 0) + TopLevelCommas(rest, depth)

ColumnCount(text) == IF text = "" THEN 0 ELSE 1 + TopLevelCommas(text, 0)

C21_AllColumns ==
    (Compiled /\ Get(file_content, "type").tag # "str"
              /\ \A i \in DOMAIN file_content.ents : WellTyped(file_content.ents[i].v))
        => /\ returned.err = "none"
           /\ ColumnCount(returned.val) = Len(file_content.ents)
           /\ returned = Ok(SpecFields(ResolveChildren(file_content.ents, mapping), " "))

\* C22: when the overlay replaces a top-level key, the original definition of
\* that field is not evaluated: compile succeeds with the replacement whatever
\* the original is (unsupported, unknown, malformed or sound) when the
\* replacement node is sound, and raises, returning no string, when the
\* replacement node is unsupported, unknown or malformed.
ReplacementOf(m, key) == Get(m, key).ents[1].v

C22_ReplacementDecides ==
    (Compiled /\ HasOwn(mapping, ReplacedKey))
        => IF SpecFault(ReplacementOf(mapping, ReplacedKey)) = "none"
           THEN returned = Ok(SpecFields(ResolveChildren(file_content.ents, mapping), " "))
           ELSE returned.val = "" /\ returned.err # "none"

\* C18: a decimal column with numeric precision p and scale s compiles to
\* "decimal(P,S)" with no space after the comma, P and S plain integer
\* numerals; an integer-valued p or s (also written 5.0 or "5") prints as
\* that integer.
DecimalColumn(doc) == doc.ents[1].v
PrecisionOf(doc) == Get(Get(DecimalColumn(doc), "properties"), "precision")
ScaleOf(doc) == Get(Get(DecimalColumn(doc), "properties"), "scale")

RendersAs(text, p, sc) ==
    \E c \in 1..Len(text) :
        /\ CharAt(text, c) = ","
        /\ SubSeq(text, 1, Len("amount decimal(")) = "amount decimal("
        /\ CharAt(text, Len(text)) = ")"
        /\ LET P == SubSeq(text, Len("amount decimal(") + 1, c - 1)
               S == SubSeq(text, c + 1, Len(text) - 1)
           IN /\ IsNumeral(P)
              /\ IsNumeral(S)
              /\ IsIntegerValued(p) => P = NatToString(IntegerOf(p))
              /\ IsIntegerValued(sc) => S = NatToString(IntegerOf(sc))

C18_DecimalIntegers ==
    (Compiled /\ Get(DecimalColumn(file_content), "type") = Str("decimal"))
        => /\ returned.err = "none"
           /\ RendersAs(returned.val, PrecisionOf(file_content), ScaleOf(file_content))

====
